---- MODULE Spec2Model ----
(***************************************************************************)
(* pyipay: a client for a bank's hosted payment gateway.                   *)
(*                                                                         *)
(* The model follows src/pyipay/pyipay.py (class Gateway) and              *)
(* src/pyipay/util.py.  Python values are tagged records, Python strings   *)
(* are sequences of code points, bytes are sequences of 0..255, and a call *)
(* either returns a value (Ok) or raises (Raise).                          *)
(***************************************************************************)
EXTENDS Integers, Sequences, FiniteSets, TLC

VARIABLES
    world,   \* what lies outside the client: keystore, resource bundle, constructor arguments
    pc,      \* where the run is: "new" / "ready" / "failed" for a Gateway, a stage for the pure specs
    self,    \* the Gateway instance: a function from the attributes that are set to their values
    result,  \* the outcome of the last call: Ok(value) or Raise(error, message)
    calls,   \* the functions entered during the last call, in order
    arg      \* the argument of the last call

vars == <<world, pc, self, result, calls, arg>>

(***************************************************************************)
(* Python values and outcomes                                              *)
(***************************************************************************)
None == [t |-> "None"]
Str(s) == [t |-> "str", v |-> s]
Bytes(b) == [t |-> "bytes", v |-> b]
PyInt(n) == [t |-> "int", v |-> n]
Dict(keys, vals) == [t |-> "dict", k |-> keys, v |-> vals]

\* a message is a tuple of the pieces it is formatted from
Ok(v) == [ok |-> TRUE, val |-> v, err |-> "", msg |-> <<>>]
Raise(e, m) == [ok |-> FALSE, val |-> None, err |-> e, msg |-> m]
NoResult == [ok |-> TRUE, val |-> [t |-> "nothing"], err |-> "", msg |-> <<>>]

\* bool(v) as Python's `if v` and all(...) take it
Truthy(v) ==
    CASE v.t = "None" -> FALSE
      [] v.t = "str" -> Len(v.v) > 0
      [] v.t = "bytes" -> Len(v.v) > 0
      [] v.t = "int" -> v.v # 0
      [] OTHER -> TRUE

(***************************************************************************)
(* Characters: printable ASCII by position, so that text can be written    *)
(* as a tuple of one-character strings ("GRAVE" stands for the grave       *)
(* accent, code 96, which a string literal cannot hold).                   *)
(***************************************************************************)
Ascii ==
    << " ", "!", "\"", "#", "$", "%", "&", "'", "(", ")", "*", "+", ",", "-", ".", "/",
       "0", "1", "2", "3", "4", "5", "6", "7", "8", "9", ":", ";", "<", "=", ">", "?",
       "@", "A", "B", "C", "D", "E", "F", "G", "H", "I", "J", "K", "L", "M", "N", "O",
       "P", "Q", "R", "S", "T", "U", "V", "W", "X", "Y", "Z", "[", "\\", "]", "^", "_",
       "GRAVE", "a", "b", "c", "d", "e", "f", "g", "h", "i", "j", "k", "l", "m", "n", "o",
       "p", "q", "r", "s", "t", "u", "v", "w", "x", "y", "z", "{", "|", "}", "~" >>

Ord(c) == 31 + (CHOOSE i \in DOMAIN Ascii : Ascii[i] = c)
S(t) == [i \in DOMAIN t |-> Ord(t[i])]

SeqRange(s) == {s[i] : i \in DOMAIN s}
SetMin(xs) == CHOOSE x \in xs : \A y \in xs : x <= y

\* the concatenation of the sequences of ss, by halves
RECURSIVE Flatten(_)
Flatten(ss) ==
    IF Len(ss) = 0 THEN <<>>
    ELSE IF Len(ss) = 1 THEN ss[1]
    ELSE LET h == Len(ss) \div 2
         IN Flatten(SubSeq(ss, 1, h)) \o Flatten(SubSeq(ss, h + 1, Len(ss)))

\* the position of the first x in s, 0 when there is none (str.find)
Find(s, x) ==
    LET at == {i \in DOMAIN s : s[i] = x}
    IN IF at = {} THEN 0 ELSE SetMin(at)

IsDigit(c) == c >= 48 /\ c <= 57
IsUpper(c) == c >= 65 /\ c <= 90
IsLower(c) == c >= 97 /\ c <= 122
IsAlpha(c) == IsUpper(c) \/ IsLower(c)
Lower(s) == [i \in DOMAIN s |-> IF IsUpper(s[i]) THEN s[i] + 32 ELSE s[i]]

(***************************************************************************)
(* str.encode("utf-8") and bytes.decode("utf-8")                           *)
(***************************************************************************)
utf8_char(cp) ==
    IF cp < 128 THEN <<cp>>
    ELSE IF cp < 2048 THEN <<192 + (cp \div 64), 128 + (cp % 64)>>
    ELSE IF cp < 65536 THEN <<224 + (cp \div 4096), 128 + ((cp \div 64) % 64), 128 + (cp % 64)>>
    ELSE <<240 + (cp \div 262144), 128 + ((cp \div 4096) % 64), 128 + ((cp \div 64) % 64),
           128 + (cp % 64)>>

utf8_encode(s) == Flatten([i \in DOMAIN s |-> utf8_char(s[i])])

IsCont(b, i) == i <= Len(b) /\ b[i] >= 128 /\ b[i] < 192

\* the number of bytes of the character that starts at b[i], 0 when it is malformed
utf8_width(b, i) ==
    LET c == b[i] IN
    IF c < 128 THEN 1
    ELSE IF c >= 194 /\ c < 224 /\ IsCont(b, i+1) THEN 2
    ELSE IF c >= 224 /\ c < 240 /\ IsCont(b, i+1) /\ IsCont(b, i+2)
            /\ (c # 224 \/ b[i+1] >= 160) /\ (c # 237 \/ b[i+1] < 160) THEN 3
    ELSE IF c >= 240 /\ c < 245 /\ IsCont(b, i+1) /\ IsCont(b, i+2) /\ IsCont(b, i+3)
            /\ (c # 240 \/ b[i+1] >= 144) /\ (c # 244 \/ b[i+1] < 144) THEN 4
    ELSE 0

utf8_point(b, i, w) ==
    CASE w = 1 -> b[i]
      [] w = 2 -> (b[i] - 192) * 64 + (b[i+1] - 128)
      [] w = 3 -> (b[i] - 224) * 4096 + (b[i+1] - 128) * 64 + (b[i+2] - 128)
      [] OTHER -> (b[i] - 240) * 262144 + (b[i+1] - 128) * 4096 + (b[i+2] - 128) * 64
                  + (b[i+3] - 128)

\* bytes.decode("utf-8", errors="replace"): U+FFFD for a byte that starts no character
RECURSIVE utf8_decode_replace(_, _)
utf8_decode_replace(b, i) ==
    IF i > Len(b) THEN <<>>
    ELSE LET w == utf8_width(b, i) IN
         IF w = 0 THEN <<65533>> \o utf8_decode_replace(b, i + 1)
         ELSE <<utf8_point(b, i, w)>> \o utf8_decode_replace(b, i + w)

\* bytes.decode("utf-8"), strict: every byte that is not a continuation byte must start
\* a well-formed character that ends where the next one starts
utf8_decode(b) ==
    LET starts == {i \in DOMAIN b : ~IsCont(b, i)}
        next(i) == IF \E j \in starts : j > i THEN SetMin({j \in starts : j > i}) ELSE Len(b) + 1
        nth(k) == CHOOSE i \in starts : Cardinality({j \in starts : j <= i}) = k
    IN IF /\ (Len(b) = 0 \/ 1 \in starts)
          /\ \A i \in starts : utf8_width(b, i) > 0 /\ next(i) = i + utf8_width(b, i)
       THEN Ok(Str([k \in 1..Cardinality(starts) |-> utf8_point(b, nth(k), utf8_width(b, nth(k)))]))
       ELSE Raise("UnicodeDecodeError", <<"invalid utf-8">>)

(***************************************************************************)
(* binascii.hexlify / binascii.unhexlify                                   *)
(***************************************************************************)
HexDigits == S(<<"0","1","2","3","4","5","6","7","8","9","a","b","c","d","e","f">>)

hexlify(b) == Flatten([i \in DOMAIN b |-> <<HexDigits[(b[i] \div 16) + 1], HexDigits[(b[i] % 16) + 1]>>])

IsHexDigit(c) == IsDigit(c) \/ (c >= 97 /\ c <= 102) \/ (c >= 65 /\ c <= 70)
HexVal(c) == IF IsDigit(c) THEN c - 48 ELSE IF c >= 97 THEN c - 87 ELSE c - 55

unhexlify(h) ==
    IF (Len(h) % 2) # 0 THEN Raise("binascii.Error", <<"Odd-length string">>)
    ELSE IF \E i \in DOMAIN h : ~IsHexDigit(h[i])
         THEN Raise("binascii.Error", <<"Non-hexadecimal digit found">>)
    ELSE Ok(Bytes([i \in 1..(Len(h) \div 2) |-> 16 * HexVal(h[2*i - 1]) + HexVal(h[2*i])]))

(***************************************************************************)
(* Cryptodome: Padding.pad / Padding.unpad (pkcs7) and AES in CBC mode.    *)
(* The AES block function itself is library code: it is modelled as a      *)
(* keyed bijection on 16-byte blocks with a separately defined inverse.    *)
(* Key and IV checks, chaining, padding, hex and UTF-8 are as in the code. *)
(***************************************************************************)
PADDING_OFFSET == 16

AES == [block_size |-> 16, key_size |-> {16, 24, 32}]

RECURSIVE BitXor(_, _)
BitXor(a, b) ==
    IF a = 0 /\ b = 0 THEN 0
    ELSE (((a % 2) + (b % 2)) % 2) + 2 * BitXor(a \div 2, b \div 2)

XorBlock(x, y) == [i \in DOMAIN x |-> BitXor(x[i], y[i])]

SBox(x) == (x * 5 + 3) % 256
SBoxInv(y) == ((y + 253) * 205) % 256

BlockEncrypt(key, b) ==
    [i \in 1..AES.block_size |->
        SBox(BitXor(b[(i % AES.block_size) + 1], key[((i - 1) % Len(key)) + 1]))]

BlockDecrypt(key, c) ==
    [j \in 1..AES.block_size |->
        LET i == ((j + AES.block_size - 2) % AES.block_size) + 1
        IN BitXor(SBoxInv(c[i]), key[((i - 1) % Len(key)) + 1])]

\* a plausible slip: no padding block when the data is already aligned
pad_none_when_aligned(data, block_size) ==
    LET n == (block_size - (Len(data) % block_size)) % block_size
    IN data \o [i \in 1..n |-> n]

pad(data, block_size) ==
    LET n == block_size - (Len(data) % block_size)
    IN data \o [i \in 1..n |-> n]

unpad(data, block_size) ==
    IF Len(data) = 0 THEN Raise("ValueError", <<"Zero-length input cannot be unpadded">>)
    ELSE IF (Len(data) % block_size) # 0 THEN Raise("ValueError", <<"Input data is not padded">>)
    ELSE LET n == data[Len(data)] IN
         IF n < 1 \/ n > block_size \/ n > Len(data)
         THEN Raise("ValueError", <<"Padding is incorrect.">>)
         ELSE IF \E i \in (Len(data) - n + 1)..Len(data) : data[i] # n
         THEN Raise("ValueError", <<"PKCS#7 padding is incorrect.">>)
         ELSE Ok(Bytes(SubSeq(data, 1, Len(data) - n)))

\* AES.new(key, AES.MODE_CBC, iv=iv)
AES_new(key, iv) ==
    IF Len(key) \notin AES.key_size THEN Raise("ValueError", <<"Incorrect AES key length">>)
    ELSE IF Len(iv) # AES.block_size THEN Raise("ValueError", <<"Incorrect IV length">>)
    ELSE Ok([t |-> "cipher", key |-> key, iv |-> iv])

RECURSIVE cbc_enc(_, _, _)
cbc_enc(key, prev, data) ==
    IF data = <<>> THEN <<>>
    ELSE LET c == BlockEncrypt(key, XorBlock(SubSeq(data, 1, AES.block_size), prev))
         IN c \o cbc_enc(key, c, SubSeq(data, AES.block_size + 1, Len(data)))

RECURSIVE cbc_dec(_, _, _)
cbc_dec(key, prev, data) ==
    IF data = <<>> THEN <<>>
    ELSE LET c == SubSeq(data, 1, AES.block_size)
         IN XorBlock(BlockDecrypt(key, c), prev)
            \o cbc_dec(key, c, SubSeq(data, AES.block_size + 1, Len(data)))

cipher_encrypt(crypt, data) ==
    IF (Len(data) % AES.block_size) # 0
    THEN Raise("ValueError", <<"Data must be padded to 16 byte boundary in CBC mode">>)
    ELSE Ok(Bytes(cbc_enc(crypt.key, crypt.iv, data)))

cipher_decrypt(crypt, data) ==
    IF (Len(data) % AES.block_size) # 0
    THEN Raise("ValueError", <<"Data must be padded to 16 byte boundary in CBC mode">>)
    ELSE Ok(Bytes(cbc_dec(crypt.key, crypt.iv, data)))

\* util.encrypt_payload: plain_text and key are str; returns the hex text as bytes
encrypt_payload(plain_text, key) ==
    LET k == utf8_encode(key)
        crypt == AES_new(k, k)
    IN IF ~crypt.ok THEN crypt
       ELSE LET e == cipher_encrypt(crypt.val, pad(utf8_encode(plain_text), PADDING_OFFSET))
            IN IF ~e.ok THEN e ELSE Ok(Bytes(hexlify(e.val.v)))

\* util.decrypt_payload: encrypted_text is hex text (str or bytes); returns str
decrypt_payload(encrypted_text, key) ==
    LET k == utf8_encode(key)
        raw == unhexlify(encrypted_text)
    IN IF ~raw.ok THEN raw
       ELSE LET crypt == AES_new(k, k) IN
            IF ~crypt.ok THEN crypt
            ELSE LET d == cipher_decrypt(crypt.val, raw.val.v) IN
                 IF ~d.ok THEN d
                 ELSE LET u == unpad(d.val.v, PADDING_OFFSET) IN
                      IF ~u.ok THEN u ELSE utf8_decode(u.val.v)

(***************************************************************************)
(* The payload cipher on its own: a plaintext and a key are drawn, the     *)
(* plaintext is encrypted and the hex text decrypted with the same key.    *)
(***************************************************************************)
MaxPlainLen == 17

PlainAlphabet == <<Ord("a"), Ord("="), 233, Ord("&"), 8364>>
KeyAlphabet == <<Ord("k"), Ord("3"), Ord("Y")>>

PatternText(alphabet, n, a, d) ==
    [i \in 1..n |-> alphabet[((a + d * i) % Len(alphabet)) + 1]]

Plaintexts == {PatternText(PlainAlphabet, n, a, d) : n \in 0..MaxPlainLen, a \in 0..4, d \in 0..1}

\* keys of 8, 15, 16, 24 and 32 ASCII characters, and one of 8 two-byte characters
Keys == {PatternText(KeyAlphabet, n, 0, 1) : n \in {8, 15, 16, 24, 32}}
        \cup {PatternText(KeyAlphabet, 16, 1, 0), [i \in 1..8 |-> 233]}

NoWorld == [t |-> "nothing"]
NoSelf == [a \in {} |-> None]

CipherInit ==
    /\ world = NoWorld
    /\ self = NoSelf
    /\ pc = "plain"
    /\ arg \in [plain_text : Plaintexts, key : Keys]
    /\ result = NoResult
    /\ calls = <<>>

Encrypt ==
    /\ pc = "plain"
    /\ result' = encrypt_payload(arg.plain_text, arg.key)
    /\ calls' = <<"encrypt_payload">>
    /\ pc' = "encrypted"
    /\ UNCHANGED <<world, self, arg>>

Decrypt ==
    /\ pc = "encrypted"
    /\ result.ok
    /\ result' = decrypt_payload(result.val.v, arg.key)
    /\ calls' = <<"decrypt_payload">>
    /\ pc' = "decrypted"
    /\ UNCHANGED <<world, self, arg>>

CipherNext == Encrypt \/ Decrypt

SpecCipher == CipherInit /\ [][CipherNext]_vars

KeyBytes(key) == Len(utf8_encode(key))

RoundTripHolds ==
    /\ result.ok
    /\ pc = "decrypted" => result.val = Str(arg.plain_text)

\* C8 (as stated): for every plaintext p and every key k whose UTF-8 encoding is
\* 16, 24 or 32 bytes long, decrypt_payload(encrypt_payload(p, k), k) = p.
C8_RoundTripAnyAesKey ==
    (pc \in {"encrypted", "decrypted"} /\ KeyBytes(arg.key) \in {16, 24, 32}) => RoundTripHolds

\* C8 (amended): for every plaintext p and every key k whose UTF-8 encoding is
\* exactly 16 bytes long, decrypt_payload(encrypt_payload(p, k), k) = p; a key of
\* 24 or 32 bytes is refused, because the key is also handed over as the IV.
C8_RoundTripKey16 ==
    /\ (pc \in {"encrypted", "decrypted"} /\ KeyBytes(arg.key) = 16) => RoundTripHolds
    /\ (pc = "encrypted" /\ KeyBytes(arg.key) \in {24, 32}) =>
            (~result.ok /\ result.err = "ValueError")

C8_Witness ==
    /\ pc = "decrypted"
    /\ KeyBytes(arg.key) = 16
    /\ Len(arg.key) = 8
    /\ Len(arg.plain_text) >= PADDING_OFFSET
    /\ 233 \in SeqRange(arg.plain_text)
    /\ result = Ok(Str(arg.plain_text))

(***************************************************************************)
(* urllib.parse.urlparse, as far as validate_gw_url reads it: the scheme   *)
(* and the query, and the ValueError it raises for a host with an          *)
(* unbalanced bracket.  The texts drawn hold no white space.               *)
(***************************************************************************)
IsSchemeChar(c) == IsAlpha(c) \/ IsDigit(c) \/ c \in {Ord("+"), Ord("-"), Ord(".")}

\* the position of the colon that ends the scheme, 0 when the text has no scheme
SchemeEnd(url) ==
    LET i == Find(url, Ord(":"))
    IN IF i > 1 /\ IsAlpha(url[1]) /\ (\A j \in 1..(i - 1) : IsSchemeChar(url[j]))
       THEN i ELSE 0

\* s.split(c, 1): <<the text before the first c, the text after it>>
Cut(s, c) ==
    LET i == Find(s, c)
    IN IF i > 0 THEN <<SubSeq(s, 1, i - 1), SubSeq(s, i + 1, Len(s))>> ELSE <<s, <<>>>>

\* <<scheme, rest>>
SchemeSplit(url) ==
    LET i == SchemeEnd(url)
    IN IF i > 0 THEN <<Lower(SubSeq(url, 1, i - 1)), SubSeq(url, i + 1, Len(url))>>
       ELSE <<<<>>, url>>

\* _splitnetloc(url, start): <<url[start:delim], url[delim:]>>, delim the first of / ? #
_splitnetloc(url, start) ==
    LET delims == {j \in (start + 1)..Len(url) : url[j] \in {Ord("/"), Ord("?"), Ord("#")}}
        delim == IF delims = {} THEN Len(url) + 1 ELSE SetMin(delims)
    IN <<SubSeq(url, start + 1, delim - 1), SubSeq(url, delim, Len(url))>>

\* <<netloc, rest>>
NetlocSplit(url) ==
    IF Len(url) >= 2 /\ url[1] = Ord("/") /\ url[2] = Ord("/") THEN _splitnetloc(url, 2)
    ELSE <<<<>>, url>>

urlsplit(url) ==
    LET parts(scheme, nl) ==
            LET f == Cut(nl[2], Ord("#"))
                q == Cut(f[1], Ord("?"))
            IN IF (Ord("[") \in SeqRange(nl[1])) # (Ord("]") \in SeqRange(nl[1]))
               THEN Raise("ValueError", <<"Invalid IPv6 URL">>)
               ELSE Ok([t |-> "ParseResult", scheme |-> scheme, netloc |-> nl[1],
                        path |-> q[1], query |-> q[2], fragment |-> f[2]])
        split(s) == parts(s[1], NetlocSplit(s[2]))
    IN split(SchemeSplit(url))

urlparse(url) == urlsplit(url)

HttpSchemes == {S(<<"h","t","t","p">>), S(<<"h","t","t","p","s">>)}

\* a plausible slip: the query string is not looked at
validate_gw_url_scheme_only(s) ==
    LET check(u) ==
            IF ~u.ok THEN u
            ELSE IF u.val.scheme \notin HttpSchemes
            THEN Raise("InvalidUrl", <<"Scheme should be http or https">>)
            ELSE Ok(Str(s))
    IN check(urlparse(s))

\* an exception of urlparse propagates
validate_gw_url(s) ==
    LET check(u) ==
            IF ~u.ok THEN u
            ELSE IF u.val.scheme \notin HttpSchemes
            THEN Raise("InvalidUrl", <<"Scheme should be http or https">>)
            ELSE IF Len(u.val.query) > 0
            THEN Raise("InvalidUrl", <<"URL cannot have a query string">>)
            ELSE Ok(Str(s))
    IN check(urlparse(s))

(***************************************************************************)
(* validate_gw_url on its own: a text is drawn and validated.              *)
(***************************************************************************)
MaxUrlParts == 4

UrlParts ==
    { S(<<"h","t","t","p">>), S(<<"s">>), S(<<"H","T","T","P">>), S(<<"f","t","p">>),
      S(<<":">>), S(<<"/","/">>), S(<<"?">>), S(<<"#">>), S(<<"a">>), S(<<"[">>) }

Urls == {Flatten(ps) : ps \in UNION {[1..n -> UrlParts] : n \in 0..MaxUrlParts}}

UrlInit ==
    /\ world = NoWorld
    /\ self = NoSelf
    /\ pc = "url"
    /\ arg \in Urls
    /\ result = NoResult
    /\ calls = <<>>

ValidateUrl ==
    /\ pc = "url"
    /\ result' = validate_gw_url(arg)
    /\ calls' = <<"validate_gw_url">>
    /\ pc' = "validated"
    /\ UNCHANGED <<world, self, arg>>

UrlNext == ValidateUrl

SpecUrl == UrlInit /\ [][UrlNext]_vars

\* the scheme and the query of a text, read off the text itself
SchemeOf(url) == IF SchemeEnd(url) > 0 THEN Lower(SubSeq(url, 1, SchemeEnd(url) - 1)) ELSE <<>>

QueryOf(url) ==
    LET h == Find(url, Ord("#"))
        u == IF h > 0 THEN SubSeq(url, 1, h - 1) ELSE url
        q == Find(u, Ord("?"))
    IN IF q > 0 THEN SubSeq(u, q + 1, Len(u)) ELSE <<>>

ValidateAsClaimed ==
    /\ SchemeOf(arg) \notin HttpSchemes => (~result.ok /\ result.err = "InvalidUrl")
    /\ QueryOf(arg) # <<>> => (~result.ok /\ result.err = "InvalidUrl")
    /\ (SchemeOf(arg) \in HttpSchemes /\ QueryOf(arg) = <<>>) => result = Ok(Str(arg))

FILTER_CHARS ==
    S(<< "!", "#", "$", "%", "^", "&", "*", "(", ")", "+", "[", "]", "\\", "'", ";", ",",
         "{", "}", "|", "\"", ":", "<", ">", "?", "~", "GRAVE" >>)

IsSpace(c) == c = 32 \/ (c >= 9 /\ c <= 13)

RECURSIVE lstrip(_)
lstrip(s) == IF s # <<>> /\ IsSpace(Head(s)) THEN lstrip(Tail(s)) ELSE s

RECURSIVE rstrip(_)
rstrip(s) == IF s # <<>> /\ IsSpace(s[Len(s)]) THEN rstrip(SubSeq(s, 1, Len(s) - 1)) ELSE s

strip(s) == rstrip(lstrip(s))

str_translate(s, args) ==
    IF Len(args) # 1
    THEN Raise("TypeError", <<"str.translate() takes exactly one argument (2 given)">>)
    ELSE LET table == args[1]
             keep(c) == c \notin DOMAIN table \/ table[c] # None
             each(c) == IF c \in DOMAIN table THEN table[c].v ELSE <<c>>
             kept == SelectSeq(s, keep)
         IN Ok(Str(Flatten([i \in DOMAIN kept |-> each(kept[i])])))

sanitize(text) == str_translate(strip(text), <<None, Str(FILTER_CHARS)>>)

(***************************************************************************)
(* urllib.parse: quote_plus / urlencode, unquote / parse_qs                *)
(***************************************************************************)
UpperHex == S(<<"0","1","2","3","4","5","6","7","8","9","A","B","C","D","E","F">>)

IsUnreserved(c) == IsAlpha(c) \/ IsDigit(c) \/ c \in {Ord("_"), Ord("."), Ord("-"), Ord("~")}

quote_byte(b, safe) ==
    IF b < 128 /\ (IsUnreserved(b) \/ b \in SeqRange(safe)) THEN <<b>>
    ELSE <<Ord("%"), UpperHex[(b \div 16) + 1], UpperHex[(b % 16) + 1]>>

\* quote_plus(string, safe): a space becomes "+", all but the unreserved and the safe
\* characters become %XX of their UTF-8 bytes
quote_plus(string, safe) ==
    LET bs == utf8_encode(string)
    IN Flatten([i \in DOMAIN bs |-> IF bs[i] = 32 THEN <<Ord("+")>> ELSE quote_byte(bs[i], safe)])

RECURSIVE DecStr(_)
DecStr(n) == IF n < 10 THEN <<48 + n>> ELSE DecStr(n \div 10) \o <<48 + (n % 10)>>

\* str(v), which also formats v inside an f-string
PyStr(v) ==
    CASE v.t = "str" -> v.v
      [] v.t = "int" -> DecStr(v.v)
      [] v.t = "float" -> v.repr
      [] v.t = "None" -> S(<<"N","o","n","e">>)
      [] OTHER -> S(<<"?">>)

\* sep.join(parts)
JoinWith(parts, sep) ==
    Flatten([i \in 1..(2 * Len(parts) - 1) |-> IF (i % 2) = 1 THEN parts[(i + 1) \div 2] ELSE sep])

\* urlencode(query, safe=safe): query is a sequence of <<key, value>>, key a str
urlencode(query, safe) ==
    JoinWith([i \in DOMAIN query |->
                quote_plus(query[i][1], safe) \o <<Ord("=")>>
                \o quote_plus(PyStr(query[i][2]), safe)],
             <<Ord("&")>>)

RECURSIVE Split(_, _)
Split(s, sep) ==
    LET i == Find(s, sep)
    IN IF i = 0 THEN <<s>> ELSE <<SubSeq(s, 1, i - 1)>> \o Split(SubSeq(s, i + 1, Len(s)), sep)

\* unquote: %XX escapes of an ASCII run are decoded as UTF-8 with errors="replace"
RECURSIVE unquote_scan(_, _, _, _)
unquote_scan(s, i, buf, acc) ==
    LET flushed == acc \o utf8_decode_replace(buf, 1) IN
    IF i > Len(s) THEN flushed
    ELSE IF s[i] >= 128 THEN unquote_scan(s, i + 1, <<>>, Append(flushed, s[i]))
    ELSE IF s[i] = Ord("%") /\ i + 2 <= Len(s) /\ IsHexDigit(s[i+1]) /\ IsHexDigit(s[i+2])
         THEN unquote_scan(s, i + 3, Append(buf, 16 * HexVal(s[i+1]) + HexVal(s[i+2])), acc)
    ELSE unquote_scan(s, i + 1, Append(buf, s[i]), acc)

unquote(s) == IF Ord("%") \in SeqRange(s) THEN unquote_scan(s, 1, <<>>, <<>>) ELSE s

PlusToSpace(s) == [i \in DOMAIN s |-> IF s[i] = Ord("+") THEN 32 ELSE s[i]]

\* parse_qsl(qs): the <<name, value>> pairs in order; a piece without "=" or with a
\* blank value is dropped (keep_blank_values=False, strict_parsing=False)
parse_qsl(qs) ==
    LET pieces == Split(qs, Ord("&"))
        pair(p) == LET e == Find(p, Ord("="))
                   IN <<unquote(PlusToSpace(SubSeq(p, 1, e - 1))),
                        unquote(PlusToSpace(SubSeq(p, e + 1, Len(p))))>>
        kept(p) == Find(p, Ord("=")) > 0 /\ Find(p, Ord("=")) < Len(p)
        ps == SelectSeq(pieces, kept)
    IN [i \in DOMAIN ps |-> pair(ps[i])]

\* parse_qs(qs): a dict from each name to the list of its values, in order
parse_qs(qs) ==
    LET pairs == parse_qsl(qs)
        holds(name) == LET is(p) == p[1] = name IN SelectSeq(pairs, is)
    IN [name \in {pairs[i][1] : i \in DOMAIN pairs} |->
            [j \in DOMAIN holds(name) |-> holds(name)[j][2]]]

(***************************************************************************)
(* Constants of util.py and what the constructor reads from outside.       *)
(* A 3DES blob is the key it was made with and its content; decrypting it  *)
(* with another key yields garbage, which is neither an archive nor XML.   *)
(* A configuration document is the list of its child elements, each a      *)
(* <<tag, text>>.                                                          *)
(***************************************************************************)
Action ==
    [PURCHASE |-> [t |-> "Action", name |-> "PURCHASE", value |-> 1],
     REFUND |-> [t |-> "Action", name |-> "REFUND", value |-> 2],
     VOID |-> [t |-> "Action", name |-> "VOID", value |-> 3],
     INQUIRY |-> [t |-> "Action", name |-> "INQUIRY", value |-> 8]]

LANG_LOOKUP == [en |-> S(<<"U","S","A">>), ar |-> S(<<"A","R","A">>)]

dict_get(d, k, default) == IF k \in DOMAIN d THEN d[k] ELSE default

\* iso4217.Currency(code).number
Currency(code) ==
    LET numbers == [KWD |-> 414, USD |-> 840]
    IN IF code \in DOMAIN numbers THEN Ok([t |-> "Currency", number |-> numbers[code]])
       ELSE Raise("ValueError", <<code, " is not a valid Currency">>)

Garbage == [t |-> "garbage"]
Encrypted3DES(key, content) == [t |-> "3des", key |-> key, plain |-> content]
triple_des_decrypt(key, blob) == IF blob.key = key THEN blob.plain ELSE Garbage

ZipFile(data) ==
    IF data.t = "zip" THEN Ok(data) ELSE Raise("BadZipFile", <<"File is not a zip file">>)

ET_fromstring(text) ==
    IF text.t = "xml" THEN Ok(text) ELSE Raise("ParseError", <<"not well-formed">>)

load_keystore(keystore, key_name) ==
    IF key_name \notin DOMAIN keystore.secret_keys THEN Raise("KeyNotFound", <<>>)
    ELSE Ok(keystore.secret_keys[key_name])

XmlSuffix == S(<<".","x","m","l">>)

read_resource_file(resource, keystore, alias) ==
    LET key == load_keystore(keystore, "pgkey") IN
    IF ~key.ok THEN key
    ELSE LET zip_data == ZipFile(triple_des_decrypt(key.val, resource)) IN
         IF ~zip_data.ok THEN zip_data
         ELSE IF (alias \o XmlSuffix) \notin DOMAIN zip_data.val.entries
              THEN Raise("InvalidAlias", <<"The alias ", alias,
                                           " does not exist in the resource file; ",
                                           DOMAIN zip_data.val.entries>>)
         ELSE Ok(triple_des_decrypt(key.val, zip_data.val.entries[alias \o XmlSuffix]))

(***************************************************************************)
(* class Gateway.  An instance is the function from the names of the       *)
(* attributes that have been assigned to their values.                     *)
(***************************************************************************)
setattr(slf, name, v) == [a \in DOMAIN slf \cup {name} |-> IF a = name THEN v ELSE slf[a]]

RequiredTags == <<"password", "resourceKey", "id", "webaddress">>

\* {c.tag: c.text for c in root}: a later child of the same tag wins
TerminalDict(children) ==
    [tag \in {children[i][1] : i \in DOMAIN children} |->
        children[CHOOSE i \in DOMAIN children :
                    children[i][1] = tag /\ \A j \in (i + 1)..Len(children) : children[j][1] # tag][2]]

InitialUrls ==
    [a \in {"_udf1", "_udf2", "_udf3", "_udf4", "_udf5", "_response_url", "_error_url"} |->
        IF a \in {"_response_url", "_error_url"} THEN None ELSE Str(<<>>)]

\* a plausible slip: terminal.get(tag) in place of terminal[tag]
__init__missing_as_none(keystore, resource, alias, amount, lang, currency, tracking_id, now) ==
    LET conf == read_resource_file(resource, keystore, alias) IN
    IF ~conf.ok THEN conf
    ELSE LET terminal == TerminalDict(conf.val.children) IN
         Ok(InitialUrls
            @@ [lang |-> Str(dict_get(LANG_LOOKUP, lang, S(<<"U","S","A">>))),
                currency |-> PyInt(Currency(currency).val.number),
                amount |-> amount,
                password |-> dict_get(terminal, "password", None),
                key |-> dict_get(terminal, "resourceKey", None),
                portal_id |-> dict_get(terminal, "id", None),
                _pgw_url |-> dict_get(terminal, "webaddress", None)])

\* Gateway.__init__: Ok(the instance), or the exception that ends the construction
__init__(keystore, resource, alias, amount, lang, currency, tracking_id, now) ==
    LET cur == Currency(currency) IN
    IF ~cur.ok THEN cur
    ELSE LET conf == read_resource_file(resource, keystore, alias) IN
    IF ~conf.ok THEN conf
    ELSE LET root == ET_fromstring(conf.val) IN
    IF ~root.ok THEN root
    ELSE LET terminal == TerminalDict(root.val.children)
             missing == {i \in DOMAIN RequiredTags : RequiredTags[i] \notin DOMAIN terminal}
         IN
    IF missing # {} THEN Raise("KeyError", <<RequiredTags[SetMin(missing)]>>)
    ELSE LET s1 == [lang |-> Str(dict_get(LANG_LOOKUP, lang, S(<<"U","S","A">>))),
                    currency |-> PyInt(cur.val.number),
                    amount |-> amount,
                    password |-> terminal["password"],
                    key |-> terminal["resourceKey"],
                    portal_id |-> terminal["id"],
                    _pgw_url |-> terminal["webaddress"]]
             s2 == IF tracking_id = None
                   THEN setattr(s1, "tracking_id", Str(DecStr(now)))
                   ELSE s1
         IN Ok(s2 @@ InitialUrls)

\* the properties of the class: the attribute each one reads and writes
Property ==
    [udf1 |-> "_udf1", udf2 |-> "_udf2", udf3 |-> "_udf3", udf4 |-> "_udf4", udf5 |-> "_udf5",
     response_url |-> "_response_url", error_url |-> "_error_url"]

\* getattr(self, name): Ok(value), or AttributeError when nothing was assigned
getattr(slf, name) ==
    LET a == IF name \in DOMAIN Property THEN Property[name] ELSE name IN
    IF a \in DOMAIN slf THEN Ok(slf[a])
    ELSE Raise("AttributeError", <<"'Gateway' object has no attribute '", name, "'">>)

\* x.value: an Action member has one, an int has none
attr_value(x) ==
    IF x.t = "Action" THEN Ok(PyInt(x.value))
    ELSE Raise("AttributeError", <<"'", x.t, "' object has no attribute 'value'">>)

\* a method's outcome r together with the functions it entered
Traced(r, entered) == [r |-> r, calls |-> entered]

\* the functions entered so far, then those of the call t
After(entered, t) == Traced(t.r, entered \o t.calls)

UdfSetter == <<"set_udf1", "set_udf2", "set_udf3", "set_udf4", "set_udf5">>
UdfAttr == <<"_udf1", "_udf2", "_udf3", "_udf4", "_udf5">>

\* set_udf1 .. set_udf5: self._udfN = sanitize(s)
set_udf(slf, n, s) ==
    LET assign(v) ==
            [self |-> IF v.ok THEN setattr(slf, UdfAttr[n], v.val) ELSE slf,
             r |-> IF v.ok THEN Ok(None) ELSE v,
             calls |-> <<UdfSetter[n], "sanitize">>]
    IN assign(sanitize(s))

\* a plausible slip: the value is stored before it is validated
set_url_unchecked(slf, attr, s) ==
    LET assign(v) ==
            [self |-> setattr(slf, attr, Str(s)),
             r |-> IF v.ok THEN Ok(None) ELSE v,
             calls |-> <<"set" \o attr, "validate_gw_url">>]
    IN assign(validate_gw_url(s))

\* set_response_url / set_error_url: self.<attr> = validate_gw_url(s)
set_url(slf, attr, s) ==
    LET assign(v) ==
            [self |-> IF v.ok THEN setattr(slf, attr, v.val) ELSE slf,
             r |-> IF v.ok THEN Ok(None) ELSE v,
             calls |-> <<"set" \o attr, "validate_gw_url">>]
    IN assign(validate_gw_url(s))

ParamNames ==
    [action |-> S(<<"a","c","t","i","o","n">>),
     id |-> S(<<"i","d">>),
     password |-> S(<<"p","a","s","s","w","o","r","d">>),
     langid |-> S(<<"l","a","n","g","i","d">>),
     currencycode |-> S(<<"c","u","r","r","e","n","c","y","c","o","d","e">>),
     trackid |-> S(<<"t","r","a","c","k","i","d">>),
     amt |-> S(<<"a","m","t">>),
     udf1 |-> S(<<"u","d","f","1">>),
     udf2 |-> S(<<"u","d","f","2">>),
     udf3 |-> S(<<"u","d","f","3">>),
     udf4 |-> S(<<"u","d","f","4">>),
     udf5 |-> S(<<"u","d","f","5">>),
     responseURL |-> S(<<"r","e","s","p","o","n","s","e","U","R","L">>),
     errorURL |-> S(<<"e","r","r","o","r","U","R","L">>)]

\* _build_param_dict(action): the parameters as <<name, value>> in the order given
_build_param_dict(slf, action) ==
    LET params(tracking) ==
            IF ~tracking.ok THEN tracking
            ELSE Ok(<< <<ParamNames.action, action>>,
                       <<ParamNames.id, slf.portal_id>>,
                       <<ParamNames.password, slf.password>>,
                       <<ParamNames.langid, slf.lang>>,
                       <<ParamNames.currencycode, slf.currency>>,
                       <<ParamNames.trackid, tracking.val>>,
                       <<ParamNames.amt, slf.amount>>,
                       <<ParamNames.udf1, slf._udf1>>,
                       <<ParamNames.udf2, slf._udf2>>,
                       <<ParamNames.udf3, slf._udf3>>,
                       <<ParamNames.udf4, slf._udf4>>,
                       <<ParamNames.udf5, slf._udf5>>,
                       <<ParamNames.responseURL, slf._response_url>>,
                       <<ParamNames.errorURL, slf._error_url>> >>)
    IN Traced(IF action.t = "int" /\ action.v = 1
              THEN params(getattr(slf, "tracking_id"))
              ELSE Ok(<<>>),
              <<"_build_param_dict">>)

\* _build_payload(action): it reads action.value before anything else
_build_payload(slf, action) ==
    LET set(p) == Truthy(p[2])
        decoded(payload) ==
            Traced(IF payload.ok THEN Ok(Str(payload.val.v)) ELSE payload,
                   <<"encrypt_payload">>)
        encrypted(params) ==
            IF ~params.r.ok THEN params
            ELSE After(params.calls,
                       decoded(encrypt_payload(urlencode(SelectSeq(params.r.val, set),
                                                         S(<<":", "/">>)),
                                               slf.key.v)))
        built(code) ==
            IF ~code.ok THEN Traced(code, <<>>)
            ELSE encrypted(_build_param_dict(slf, code.val))
    IN After(<<"_build_payload">>, built(attr_value(action)))

RedirectPath ==
    S(<<"/","P","a","y","m","e","n","t","H","T","T","P",".","h","t","m","?","p","a","r","a","m",
        "=","p","a","y","m","e","n","t","I","n","i","t","&","t","r","a","n","d","a","t","a","=">>)
PortalParam == S(<<"&","t","r","a","n","p","o","r","t","a","l","I","d","=">>)
ResponseParam == S(<<"&","r","e","s","p","o","n","s","e","U","R","L","=">>)
ErrorParam == S(<<"&","e","r","r","o","r","U","R","L","=">>)

\* _get_redirect_url(action): it hands action.value on to _build_payload
_get_redirect_url(slf, action) ==
    LET gw_url(payload) ==
            IF ~payload.r.ok THEN payload
            ELSE Traced(Ok(Str(PyStr(slf._pgw_url) \o RedirectPath \o PyStr(payload.r.val)
                               \o PortalParam \o PyStr(slf.portal_id)
                               \o ResponseParam \o PyStr(slf._response_url)
                               \o ErrorParam \o PyStr(slf._error_url))),
                        payload.calls)
        built(code) ==
            IF ~code.ok THEN Traced(code, <<>>)
            ELSE gw_url(_build_payload(slf, code.val))
    IN After(<<"_get_redirect_url">>, built(attr_value(action)))

\* the body of generate_purchase_request, under its decorator
generate_purchase_request_body(slf) ==
    After(<<"generate_purchase_request">>, _get_redirect_url(slf, Action.PURCHASE))

\* check_if_set(props)(f): wrapped calls f when every property is truthy and drops what
\* f returns; else it raises AttributeError with all of props in the message.  called is
\* the outcome of f(self), which is looked at only when f is called
check_if_set(props, f_name, slf, called) ==
    LET dropped(done) == IF done.r.ok THEN Traced(Ok(None), done.calls) ELSE done
    IN IF \A i \in DOMAIN props : Truthy(getattr(slf, props[i]).val)
       THEN After(<<"wrapped">>, dropped(called))
       ELSE Traced(Raise("AttributeError",
                         JoinWith([i \in DOMAIN props |-> <<props[i]>>], <<",">>)
                           \o <<" must be set before ", f_name, " can be called">>),
                   <<"wrapped">>)

RequiredProps == <<"response_url", "error_url">>

\* a plausible slip: the decorator is left off
generate_purchase_request_undecorated(slf) == generate_purchase_request_body(slf)

generate_purchase_request(slf) ==
    check_if_set(RequiredProps, "generate_purchase_request", slf,
                 generate_purchase_request_body(slf))

TRANDATA == S(<<"t","r","a","n","d","a","t","a">>)

\* a plausible slip: a missing trandata is read as an empty payload
_parse_response_lenient(slf, raw_response) ==
    LET pop(results) ==
            LET rest == [k \in DOMAIN results \ {TRANDATA} |-> results[k]]
                both(d) ==
                    IF ~d.ok THEN Traced(d, <<"decrypt_payload">>)
                    ELSE Traced(Ok(<<rest, parse_qs(d.val.v)>>), <<"decrypt_payload", "parse_qs">>)
            IN IF TRANDATA \notin DOMAIN results
               THEN Traced(Ok(<<rest, parse_qs(<<>>)>>), <<>>)
               ELSE both(decrypt_payload(results[TRANDATA][1], slf.key.v))
    IN After(<<"_parse_response", "parse_qs">>, pop(parse_qs(raw_response)))

\* _parse_response(raw_response): Ok(<<results, decrypted_results>>)
_parse_response(slf, raw_response) ==
    LET pop(results) ==
            LET rest == [k \in DOMAIN results \ {TRANDATA} |-> results[k]]
                both(d) ==
                    IF ~d.ok THEN Traced(d, <<"decrypt_payload">>)
                    ELSE Traced(Ok(<<rest, parse_qs(d.val.v)>>), <<"decrypt_payload", "parse_qs">>)
            IN IF TRANDATA \notin DOMAIN results
               THEN Traced(Raise("InvalidGatewayResponse",
                                 <<"Invalid response from the gateway, missing encrypted data">>),
                           <<>>)
               ELSE both(decrypt_payload(results[TRANDATA][1], slf.key.v))
    IN After(<<"_parse_response", "parse_qs">>, pop(parse_qs(raw_response)))

\* a plausible slip: the decrypted value overwrites the cleartext one
merge_decrypted_first(common, decrypted) ==
    [k \in DOMAIN common \cup DOMAIN decrypted |->
        IF k \in DOMAIN decrypted THEN Str(decrypted[k][1]) ELSE Str(common[k][1])]

\* d = {k: v[0] for common}; then d[k] = v[0] for each decrypted k not in d
merge(common, decrypted) ==
    [k \in DOMAIN common \cup DOMAIN decrypted |->
        IF k \in DOMAIN common THEN Str(common[k][1]) ELSE Str(decrypted[k][1])]

get_result(slf, response) ==
    LET d(parsed) ==
            IF ~parsed.r.ok THEN parsed
            ELSE Traced(Ok([t |-> "dict", v |-> merge(parsed.r.val[1], parsed.r.val[2])]),
                        parsed.calls)
    IN After(<<"get_result">>, d(_parse_response(slf, response)))

(***************************************************************************)
(* One Gateway: the world it is constructed from, then any sequence of     *)
(* setter calls, generate_purchase_request() and get_result(response).     *)
(***************************************************************************)
Key16 == PatternText(KeyAlphabet, 16, 0, 1)
Key24 == PatternText(KeyAlphabet, 24, 0, 1)
OtherKey16 == PatternText(KeyAlphabet, 16, 1, 0)

FullDoc(key) ==
    << <<"id", Str(S(<<"T","0","0","1">>))>>,
       <<"password", Str(S(<<"p","w">>))>>,
       <<"resourceKey", Str(key)>>,
       <<"webaddress", Str(S(<<"h","t","t","p","s",":","/","/","g","w",".","i","o">>))>> >>

Xml(children) == [t |-> "xml", children |-> children]

\* the full document, the documents that lack some of the required tags, and the full
\* document with a 24-character resource key
Docs ==
    {LET kept(c) == c[1] \notin drop IN Xml(SelectSeq(FullDoc(Key16), kept)) :
        drop \in SUBSET SeqRange(RequiredTags)}
    \cup {Xml(FullDoc(Key24))}

TerminalAlias == S(<<"t","1">>)
Aliases == {TerminalAlias, S(<<"t","2">>)}

Bundle(doc) ==
    Encrypted3DES("K1", [t |-> "zip",
                         entries |-> ((TerminalAlias \o XmlSuffix) :> Encrypted3DES("K1", doc))])

Keystores ==
    {[secret_keys |-> ("pgkey" :> "K1")],
     [secret_keys |-> ("other" :> "K1")],
     [secret_keys |-> ("pgkey" :> "K2")]}

Worlds ==
    [keystore : Keystores,
     resource : {Bundle(doc) : doc \in Docs},
     alias : Aliases,
     amount : {[t |-> "float", repr |-> S(<<"1","0",".","5">>)]},
     lang : {"en"},
     currency : {"KWD"},
     tracking_id : {None, Str(S(<<"T","1">>))},
     now : {1541000000}]

UrlSamples ==
    { S(<<"h","t","t","p","s",":","/","/","m",".","i","o","/","o","k">>),
      S(<<"h","t","t","p",":","/","/","m",".","i","o","/","e","r","r">>),
      S(<<"f","t","p",":","/","/","m",".","i","o">>),
      S(<<"h","t","t","p","s",":","/","/","m",".","i","o","/","r","?","x","=","1">>),
      S(<<"m",".","i","o","/","r">>),
      S(<<"h","t","t","p",":","/","/","[","m">>) }

UdfSamples == { S(<<" ","a","!","b"," ">>), S(<<"o","r","d","1">>), <<>> }

Foo == S(<<"f","o","o">>)
Bar == S(<<"b","a","r">>)

\* cleartext fields of a callback, as <<name, value>>
ClearSamples ==
    { <<>>,
      << <<Foo, S(<<"1">>)>>, <<Foo, S(<<"9">>)>> >>,
      << <<Foo, <<>>>>, <<Bar, S(<<"2">>)>> >>,
      << <<S(<<"a"," ","b">>), S(<<"x","&","y">>)>>, <<Foo, S(<<"1">>)>> >> }

\* fields the gateway encrypts into trandata
PayloadSamples ==
    { <<>>,
      << <<Foo, S(<<"2">>)>>, <<Bar, S(<<"3">>)>> >>,
      << <<Bar, <<>>>>, <<<<233>>, S(<<"7">>)>> >>,
      << <<TRANDATA, S(<<"x">>)>>, <<Bar, S(<<"3">>)>>, <<Bar, S(<<"4">>)>> >> }

FormEncode(pairs) == urlencode([i \in DOMAIN pairs |-> <<pairs[i][1], Str(pairs[i][2])>>], <<>>)

\* the callback text: the cleartext fields with trandata=<hex> before or after them
CallbackText(clear, hex, first) ==
    LET fields == FormEncode(clear)
        td == TRANDATA \o <<Ord("=")>> \o hex
    IN IF fields = <<>> THEN td
       ELSE IF first THEN td \o <<Ord("&")>> \o fields
       ELSE fields \o <<Ord("&")>> \o td

\* what the gateway may send back: no trandata, a blank one, one that is not hex, one
\* encrypted with the terminal's resource key, one encrypted with another key
CallbacksFor(key) ==
    {[kind |-> "absent", clear |-> c, payload |-> <<>>, raw |-> FormEncode(c)] : c \in ClearSamples}
    \cup {[kind |-> "blank", clear |-> c, payload |-> <<>>, raw |-> CallbackText(c, <<>>, FALSE)] :
            c \in ClearSamples}
    \cup {[kind |-> "nothex", clear |-> c, payload |-> <<>>,
           raw |-> CallbackText(c, S(<<"z","z">>), TRUE)] : c \in ClearSamples}
    \cup {[kind |-> "valid", clear |-> c, payload |-> p,
           raw |-> CallbackText(c, encrypt_payload(FormEncode(p), key).val.v, f)] :
            c \in ClearSamples, f \in BOOLEAN,
            p \in {q \in PayloadSamples : encrypt_payload(FormEncode(q), key).ok}}
    \cup {[kind |-> "wrongkey", clear |-> c, payload |-> <<>>,
           raw |-> CallbackText(c, encrypt_payload(<<>>, OtherKey16).val.v, FALSE)] :
            c \in ClearSamples}

Callbacks16 == CallbacksFor(Key16)
Callbacks24 == CallbacksFor(Key24)
Callbacks(key) == IF key = Key16 THEN Callbacks16 ELSE Callbacks24

NoArg == [t |-> "nothing"]

Init ==
    /\ world \in Worlds
    /\ pc = "new"
    /\ self = NoSelf
    /\ result = NoResult
    /\ calls = <<>>
    /\ arg = NoArg

\* Gateway(keystore, resource, alias, amount, lang, currency, tracking_id): an exception
\* in __init__ leaves the caller without an instance
Construct ==
    /\ pc = "new"
    /\ LET made == __init__(world.keystore, world.resource, world.alias, world.amount,
                            world.lang, world.currency, world.tracking_id, world.now)
       IN /\ self' = IF made.ok THEN made.val ELSE NoSelf
          /\ pc' = IF made.ok THEN "ready" ELSE "failed"
          /\ result' = IF made.ok THEN Ok(None) ELSE made
    /\ calls' = <<"__init__">>
    /\ UNCHANGED <<world, arg>>

SetUdf ==
    /\ pc = "ready"
    /\ \E n \in DOMAIN UdfSetter, s \in UdfSamples :
        LET done == set_udf(self, n, s)
        IN /\ self' = done.self
           /\ result' = done.r
           /\ calls' = done.calls
           /\ arg' = [n |-> n, s |-> s]
    /\ UNCHANGED <<world, pc>>

SetResponseUrl ==
    /\ pc = "ready"
    /\ \E s \in UrlSamples :
        LET done == set_url(self, "_response_url", s)
        IN /\ self' = done.self
           /\ result' = done.r
           /\ calls' = done.calls
           /\ arg' = Str(s)
    /\ UNCHANGED <<world, pc>>

SetErrorUrl ==
    /\ pc = "ready"
    /\ \E s \in UrlSamples :
        LET done == set_url(self, "_error_url", s)
        IN /\ self' = done.self
           /\ result' = done.r
           /\ calls' = done.calls
           /\ arg' = Str(s)
    /\ UNCHANGED <<world, pc>>

GeneratePurchaseRequest ==
    /\ pc = "ready"
    /\ LET done == generate_purchase_request(self)
       IN /\ result' = done.r
          /\ calls' = <<"generate_purchase_request">> \o done.calls
    /\ arg' = NoArg
    /\ UNCHANGED <<world, pc, self>>

GetResult ==
    /\ pc = "ready"
    /\ \E cb \in Callbacks(self.key.v) :
        LET done == get_result(self, cb.raw)
        IN /\ result' = done.r
           /\ calls' = done.calls
           /\ arg' = cb
    /\ UNCHANGED <<world, pc, self>>

Next ==
    \/ Construct
    \/ SetUdf
    \/ SetResponseUrl
    \/ SetErrorUrl
    \/ GeneratePurchaseRequest
    \/ GetResult

Spec == Init /\ [][Next]_vars

(***************************************************************************)
(* What the last step called, and what it was called with.                 *)
(***************************************************************************)
Called == IF calls = <<>> THEN "" ELSE calls[1]

UrlSetters == {"set_response_url", "set_error_url"}
UrlAttrs == {"_response_url", "_error_url"}

UrlsSet(slf) == Truthy(slf._response_url) /\ Truthy(slf._error_url)

\* the required properties that are not set
UnsetProps(slf) == {p \in SeqRange(RequiredProps) : ~Truthy(slf[Property[p]])}

\* text is {webaddress}/PaymentHTTP.htm?param=paymentInit&trandata={hex}&tranportalId=
\* {portalId}&responseURL={responseUrl}&errorURL={errorUrl}, hex of even length
RedirectForm(slf, text) ==
    LET head == slf._pgw_url.v \o RedirectPath
        tail == PortalParam \o slf.portal_id.v \o ResponseParam \o slf._response_url.v
                \o ErrorParam \o slf._error_url.v
        n == Len(text) - Len(head) - Len(tail)
    IN /\ n > 0
       /\ (n % 2) = 0
       /\ SubSeq(text, 1, Len(head)) = head
       /\ SubSeq(text, Len(head) + n + 1, Len(text)) = tail
       /\ \A i \in (Len(head) + 1)..(Len(head) + n) : IsHexDigit(text[i])

\* C1 (as stated): once both URLs are set to valid URLs, generate_purchase_request()
\* succeeds and returns the redirect URL built from the terminal's web address, the hex
\* payload, the portal id and the two stored URLs.
C1_PurchaseRequestReturnsUrl ==
    (pc = "ready" /\ Called = "generate_purchase_request" /\ UrlsSet(self)) =>
        /\ result.ok
        /\ result.val.t = "str"
        /\ RedirectForm(self, result.val.v)

\* C2 (as stated): while response_url or error_url is unset, generate_purchase_request()
\* fails with PreconditionError, the error names the unset fields and only those, and no
\* payload is built or encrypted.
C2_UnsetUrlsPreconditionError ==
    (pc = "ready" /\ Called = "generate_purchase_request" /\ ~UrlsSet(self)) =>
        /\ ~result.ok
        /\ result.err = "PreconditionError"
        /\ SeqRange(result.msg) \cap SeqRange(RequiredProps) = UnsetProps(self)
        /\ SeqRange(calls) \cap {"_build_payload", "encrypt_payload"} = {}

\* C2 (amended): while response_url or error_url is unset, generate_purchase_request()
\* fails with AttributeError, the message names both response_url and error_url whichever
\* of them is unset, and the call goes no further than the decorator's wrapper: no
\* payload is built or encrypted.
C2_UnsetUrlsAttributeError ==
    (pc = "ready" /\ Called = "generate_purchase_request" /\ ~UrlsSet(self)) =>
        /\ result = Raise("AttributeError",
                          <<"response_url", ",", "error_url", " must be set before ",
                            "generate_purchase_request", " can be called">>)
        /\ calls = <<"generate_purchase_request", "wrapped">>

C2_Witness ==
    /\ pc = "ready"
    /\ Called = "generate_purchase_request"
    /\ UnsetProps(self) = {"error_url"}
    /\ ~result.ok
    /\ "response_url" \in SeqRange(result.msg)

\* C3 (as stated): after a successful construction the client holds a tracking id: the
\* one passed to the constructor, or else the current Unix time as a decimal string.
C3_TrackingIdHeld ==
    pc = "ready" =>
        /\ "tracking_id" \in DOMAIN self
        /\ self.tracking_id = IF world.tracking_id = None THEN Str(DecStr(world.now))
                              ELSE world.tracking_id

\* the names of the fields of a query string, read off the text
RawFieldNames(raw) ==
    {unquote(PlusToSpace(Cut(p, Ord("="))[1])) : p \in SeqRange(Split(raw, Ord("&")))}

MissingTrandata ==
    Raise("InvalidGatewayResponse", <<"Invalid response from the gateway, missing encrypted data">>)

\* C4: get_result(raw) on a callback query string without a trandata field fails with
\* InvalidGatewayResponse in every state after construction, whether or not the URLs are
\* set, and leaves the client as it was.
C4_NoTrandataRefused ==
    [][(pc = "ready" /\ calls'[1] = "get_result" /\ TRANDATA \notin RawFieldNames(arg'.raw)) =>
            (result' = MissingTrandata /\ self' = self)]_vars

C4_Witness ==
    /\ pc = "ready"
    /\ Called = "get_result"
    /\ TRANDATA \notin RawFieldNames(arg.raw)
    /\ Len(arg.clear) = 2
    /\ UrlsSet(self)
    /\ result = MissingTrandata

\* the fields of a list of <<name, value>> that parse_qs keeps, and their names
NonBlank(pairs) == LET kept(p) == p[2] # <<>> IN SelectSeq(pairs, kept)
Names(pairs) == {pairs[i][1] : i \in DOMAIN pairs}
FirstValue(pairs, k) == pairs[SetMin({i \in DOMAIN pairs : pairs[i][1] = k})][2]

HasKey(w) == "pgkey" \in DOMAIN w.keystore.secret_keys
KeyFits(w) == HasKey(w) /\ w.keystore.secret_keys["pgkey"] = w.resource.key
HasEntry(w) == (w.alias \o XmlSuffix) \in DOMAIN w.resource.plain.entries
Document(w) == w.resource.plain.entries[w.alias \o XmlSuffix].plain.children
MissingTags(w) == SeqRange(RequiredTags) \ Names(Document(w))
TagText(w, tag) == FirstValue(Document(w), tag)

\* construction ended as the claim says, the missing tag reported as the exception named
ConstructedAsClaimed(malformed) ==
    /\ pc = "failed" => (self = NoSelf /\ ~result.ok)
    /\ pc = "ready" =>
          /\ KeyFits(world) /\ HasEntry(world) /\ MissingTags(world) = {}
          /\ self.password = TagText(world, "password")
          /\ self.key = TagText(world, "resourceKey")
          /\ self.portal_id = TagText(world, "id")
          /\ self._pgw_url = TagText(world, "webaddress")
    /\ (pc # "new" /\ ~HasKey(world)) => (pc = "failed" /\ result.err = "KeyNotFound")
    /\ (pc # "new" /\ KeyFits(world) /\ ~HasEntry(world)) =>
          (pc = "failed" /\ result.err = "InvalidAlias")
    /\ (pc # "new" /\ KeyFits(world) /\ HasEntry(world) /\ MissingTags(world) # {}) =>
          (pc = "failed" /\ result.err = malformed)

\* C7 (as stated): construction succeeds with all four terminal fields taken from the
\* decrypted document, or fails as a whole: KeyNotFound for a missing key alias,
\* InvalidAlias for a missing archive entry, MalformedConfig for a document that lacks a
\* required tag; no partial client is produced.
C7_ConstructionMalformedConfig == ConstructedAsClaimed("MalformedConfig")

\* C7 (amended): as stated, but a document that lacks a required tag makes construction
\* fail with the KeyError of the dictionary lookup (the first missing one of password,
\* resourceKey, id, webaddress), not with MalformedConfig.
C7_ConstructionKeyError ==
    /\ ConstructedAsClaimed("KeyError")
    /\ (pc = "failed" /\ result.err = "KeyError") =>
          \E i \in DOMAIN RequiredTags :
              /\ result.msg = <<RequiredTags[i]>>
              /\ RequiredTags[i] \in MissingTags(world)
              /\ \A j \in 1..(i - 1) : RequiredTags[j] \notin MissingTags(world)

C7_Witness ==
    /\ pc = "failed"
    /\ KeyFits(world) /\ HasEntry(world)
    /\ MissingTags(world) = {"resourceKey", "webaddress"}
    /\ self = NoSelf
    /\ result = Raise("KeyError", <<"resourceKey">>)

\* C9 (as stated): every UDF setter stores sanitize(s); sanitize is idempotent and its
\* output holds no character of FILTER_CHARS.
C9_SanitizeIdempotentClean ==
    (pc = "ready" /\ Called \in SeqRange(UdfSetter)) =>
        /\ result.ok
        /\ sanitize(arg.s).ok
        /\ sanitize(sanitize(arg.s).val.v) = sanitize(arg.s)
        /\ SeqRange(sanitize(arg.s).val.v) \cap SeqRange(FILTER_CHARS) = {}
        /\ self[UdfAttr[arg.n]] = sanitize(arg.s).val

\* a stored URL is unset or a text that validate_gw_url returns unchanged
StoredUrlValid(v) == v = None \/ (v.t = "str" /\ validate_gw_url(v.v) = Ok(v))

\* C10: after any sequence of set_response_url / set_error_url calls each stored URL is
\* None or a value that passed validate_gw_url; a URL that has been set is never None
\* again; a setter call that fails leaves both stored URLs as they were; so once both
\* URLs are set they stay set.
C10_StoredUrlsValid ==
    [][/\ pc' = "ready" => \A a \in UrlAttrs : StoredUrlValid(self'[a])
       /\ pc = "ready" =>
            /\ \A a \in UrlAttrs : self[a] # None => self'[a] # None
            /\ (calls'[1] \in UrlSetters /\ ~result'.ok) =>
                    \A a \in UrlAttrs : self'[a] = self[a]
            /\ UrlsSet(self) => UrlsSet(self')]_vars

C10_Witness ==
    /\ pc = "ready"
    /\ Called = "set_error_url"
    /\ result.err = "InvalidUrl"
    /\ UrlsSet(self)
    /\ self._response_url # self._error_url

====
